---- MODULE Spec2Model ----
(***************************************************************************)
(* State-machine model of the CAMBLOG blog API: the blog router            *)
(* (src/routes/blog.js) with its embedded comment ledger, and the          *)
(* submission router (src/routes/submissionRoute.js).                      *)
(*                                                                         *)
(* A handler that awaits several store or media calls is split at its      *)
(* awaits, so that other requests can run between them; a handler with a   *)
(* single store statement is one action.                                   *)
(***************************************************************************)
EXTENDS Integers, Sequences, FiniteSets, Bags, TLC

(***************************************************************************)
(* Bounds of the model.                                                    *)
(***************************************************************************)
\* number of blog ids uuidv4() hands out (blog.js:257)
MaxBlogs == 2
\* number of comment ids uuidv4() hands out (blog.js:462)
MaxComments == 2
\* number of requests in flight at once
MaxReq == 2
\* length of the stored lists the pagination specification draws
MaxList == 3
\* number of submission ids uuidv4() hands out (submissionRoute.js:43)
MaxSubs == 2

BlogIds == 1..MaxBlogs
CommentIds == 1..MaxComments
SubIds == 1..MaxSubs

(***************************************************************************)
(* JavaScript values.  A string the code inspects character by character   *)
(* (trim, the e-mail pattern, parseInt) is a sequence of one-character     *)
(* strings; a request field is tagged with its JavaScript type.            *)
(***************************************************************************)
Undefined == [t |-> "undefined"]
Null == [t |-> "null"]
Str(s) == [t |-> "string", v |-> s]
Arr(a) == [t |-> "array", v |-> a]
Obj(a) == [t |-> "object", v |-> a]
Num(n) == [t |-> "number", v |-> n]

\* the characters String.prototype.trim removes and the regular expression
\* class \s matches: the ECMAScript WhiteSpace and LineTerminator characters.
\* A character beyond ASCII is given by its \uXXXX escape, and also as itself
\* where the text of a module can hold it.
WhiteSpace ==
  {" ", "\t", "\n", "\r", "\f", "", " ", " ", "﻿",
   "\\u000B", "\\u00A0", "\\u1680", "\\u2000", "\\u2001", "\\u2002",
   "\\u2003", "\\u2004", "\\u2005", "\\u2006", "\\u2007", "\\u2008",
   "\\u2009", "\\u200A", "\\u2028", "\\u2029", "\\u202F", "\\u205F",
   "\\u3000", "\\uFEFF"}

RECURSIVE TrimStart(_)
TrimStart(s) ==
  IF s # <<>> /\ Head(s) \in WhiteSpace THEN TrimStart(Tail(s)) ELSE s

RECURSIVE TrimEnd(_)
TrimEnd(s) ==
  IF s # <<>> /\ s[Len(s)] \in WhiteSpace
  THEN TrimEnd(SubSeq(s, 1, Len(s) - 1))
  ELSE s

\* String.prototype.trim
Trim(s) == TrimEnd(TrimStart(s))

(***************************************************************************)
(* JSON text is a sequence of tokens: brackets, commas, value tokens       *)
(* (a string literal or an object literal, kept whole), literal tokens     *)
(* (the whole text of a string, a number or null that is not inside an     *)
(* array) and bare words, which no JSON grammar rule accepts.              *)
(***************************************************************************)
LB == [k |-> "["]
RB == [k |-> "]"]
COMMA == [k |-> ","]
Val(x) == [k |-> "val", v |-> x]
Bare(w) == [k |-> "bare", w |-> w]
Lit(x) == [k |-> "lit", v |-> x]

RECURSIVE JoinTokens(_)
JoinTokens(a) ==
  IF a = <<>> THEN <<>>
  ELSE IF Len(a) = 1 THEN <<Val(a[1])>>
  ELSE <<Val(a[1]), COMMA>> \o JoinTokens(Tail(a))

\* JSON.stringify of an array of strings or objects
JSONstringify(a) == <<LB>> \o JoinTokens(a) \o <<RB>>

\* the text is a well-formed JSON array
IsArrayText(s) ==
  /\ Len(s) >= 2
  /\ s[1] = LB
  /\ s[Len(s)] = RB
  /\ \/ Len(s) = 2
     \/ /\ Len(s) % 2 = 1
        /\ \A i \in 2..(Len(s) - 1) :
             IF i % 2 = 0 THEN s[i].k = "val" ELSE s[i] = COMMA

RECURSIVE ArrayElements(_, _)
\* the values of a well-formed array text, from token i on
ArrayElements(s, i) ==
  IF i >= Len(s) THEN <<>> ELSE <<s[i].v>> \o ArrayElements(s, i + 2)

\* JSON.parse: ok is FALSE where JSON.parse throws a SyntaxError; t is the
\* kind of the value: an array (val is the list of its elements), an object
\* (val is what the object literal holds) or a string, number or null (val is
\* the tagged value)
JSONparse(s) ==
  IF IsArrayText(s)
  THEN [ok |-> TRUE, t |-> "array", val |-> ArrayElements(s, 2)]
  ELSE IF Len(s) = 1 /\ s[1].k = "val"
  THEN [ok |-> TRUE, t |-> "object", val |-> s[1].v]
  ELSE IF Len(s) = 1 /\ s[1].k = "lit"
  THEN [ok |-> TRUE, t |-> s[1].v.t, val |-> s[1].v]
  ELSE [ok |-> FALSE, t |-> "undefined", val |-> <<>>]

\* the value JSON.parse returns for a text it accepts, tagged with its type
ParsedValue(s) ==
  IF JSONparse(s).t = "array" THEN Arr(JSONparse(s).val)
  ELSE IF JSONparse(s).t = "object" THEN Obj(JSONparse(s).val)
  ELSE JSONparse(s).val

\* JSON.stringify of a tagged value: undefined stays undefined, an array is
\* its array text, an object its literal, a string, number or null its literal
Stringify(x) ==
  CASE x.t = "undefined" -> Undefined
    [] x.t = "array" -> Str(JSONstringify(x.v))
    [] x.t = "object" -> Str(<<Val(x.v)>>)
    [] OTHER -> Str(<<Lit(x)>>)

\* Object.values of a keyed object: an object whose properties are read in
\* order is the sequence of its entries [key |-> k, value |-> x]
ObjectValues(entries) == [i \in 1..Len(entries) |-> entries[i].value]

RECURSIVE ArrayToString(_)
\* Array.prototype.toString of an array of objects: "[object Object]" joined by ","
ArrayToString(a) ==
  IF a = <<>> THEN <<>>
  ELSE <<LB, Bare("object"), Bare("Object"), RB>>
         \o (IF Len(a) = 1 THEN <<>> ELSE <<COMMA>> \o ArrayToString(Tail(a)))

\* JavaScript truthiness of a tagged value
Truthy(x) ==
  CASE x.t = "undefined" -> FALSE
    [] x.t = "null" -> FALSE
    [] x.t = "string" -> x.v # <<>>
    [] x.t = "number" -> x.v # 0
    [] OTHER -> TRUE

(***************************************************************************)
(* Numbers out of request values: String(x) and parseInt(x).  A text is    *)
(* the sequence of its characters.                                         *)
(***************************************************************************)
NaN == [nan |-> TRUE]
Int32(n) == [nan |-> FALSE, n |-> n]

Digits == <<"0", "1", "2", "3", "4", "5", "6", "7", "8", "9">>

IsDigit(c) == \E d \in 1..Len(Digits) : Digits[d] = c
DigitValue(c) == (CHOOSE d \in 1..Len(Digits) : Digits[d] = c) - 1

HexLetters == <<"a", "b", "c", "d", "e", "f">>
HexCapitals == <<"A", "B", "C", "D", "E", "F">>

IsHexDigit(c) ==
  IsDigit(c) \/ \E d \in 1..Len(HexLetters) : c \in {HexLetters[d], HexCapitals[d]}

HexDigitValue(c) ==
  IF IsDigit(c) THEN DigitValue(c)
  ELSE 9 + (CHOOSE d \in 1..Len(HexLetters) : c \in {HexLetters[d], HexCapitals[d]})

RECURSIVE DigitsPrefixValue(_, _)
\* the value of the leading digits of s, after the digits worth acc
DigitsPrefixValue(s, acc) ==
  IF s = <<>> \/ ~IsDigit(Head(s)) THEN acc
  ELSE DigitsPrefixValue(Tail(s), 10 * acc + DigitValue(Head(s)))

RECURSIVE HexPrefixValue(_, _)
\* the value of the leading hexadecimal digits of s, after the digits worth acc
HexPrefixValue(s, acc) ==
  IF s = <<>> \/ ~IsHexDigit(Head(s)) THEN acc
  ELSE HexPrefixValue(Tail(s), 16 * acc + HexDigitValue(Head(s)))

RECURSIVE NaturalToString(_)
NaturalToString(n) ==
  IF n < 10 THEN <<Digits[n + 1]>>
  ELSE NaturalToString(n \div 10) \o <<Digits[(n % 10) + 1]>>

RECURSIVE StringOf(_)
\* String(x): an array is its elements' texts joined by ",", null and
\* undefined elements being empty; an object is "[object Object]"
StringOf(x) ==
  CASE x.t = "string" -> x.v
    [] x.t = "undefined" -> <<"u", "n", "d", "e", "f", "i", "n", "e", "d">>
    [] x.t = "null" -> <<"n", "u", "l", "l">>
    [] x.t = "number" ->
         IF x.v < 0 THEN <<"-">> \o NaturalToString(0 - x.v)
         ELSE NaturalToString(x.v)
    [] x.t = "array" ->
         IF x.v = <<>> THEN <<>>
         ELSE (IF Head(x.v).t \in {"null", "undefined"} THEN <<>>
               ELSE StringOf(Head(x.v)))
              \o (IF Len(x.v) = 1 THEN <<>>
                  ELSE <<",">> \o StringOf([t |-> "array", v |-> Tail(x.v)]))
    [] OTHER -> <<"[", "o", "b", "j", "e", "c", "t", " ",
                  "O", "b", "j", "e", "c", "t", "]">>

\* parseInt(q) with no radix: the text of q, leading white space skipped, a
\* sign, then hexadecimal digits after 0x or 0X, decimal digits otherwise
ParseInt(q) ==
  LET s == TrimStart(StringOf(q))
      signed == s # <<>> /\ Head(s) \in {"-", "+"}
      d == IF signed THEN Tail(s) ELSE s
      hex == Len(d) >= 2 /\ d[1] = "0" /\ d[2] \in {"x", "X"}
      h == IF hex THEN SubSeq(d, 3, Len(d)) ELSE d
      magnitude == IF hex THEN HexPrefixValue(h, 0) ELSE DigitsPrefixValue(h, 0)
  IN IF h = <<>> THEN NaN
     ELSE IF hex /\ ~IsHexDigit(Head(h)) THEN NaN
     ELSE IF ~hex /\ ~IsDigit(Head(h)) THEN NaN
     ELSE IF signed /\ Head(s) = "-" THEN Int32(0 - magnitude)
     ELSE Int32(magnitude)

\* Math.ceil(a / b) for integers, b # 0
CeilDiv(a, b) == IF b > 0 THEN 0 - ((0 - a) \div b) ELSE 0 - (a \div (0 - b))

\* parseInt(q) || fallback: NaN and 0 are falsy
ParseIntOr(q, fallback) ==
  IF ParseInt(q).nan THEN fallback
  ELSE IF ParseInt(q).n = 0 THEN fallback
  ELSE ParseInt(q).n

(***************************************************************************)
(* The store.  config/db.js is not part of the sources; the spec says the  *)
(* storage layer hands a JSON column back either as text or as an already  *)
(* structured value, depending on the driver.  columnShape fixes which for *)
(* one deployment.                                                         *)
(***************************************************************************)
VARIABLES
  blogs,          \* table blogs: blog id -> row, or NoRow
  reqs,           \* requests in flight: the bag of the handlers' locals at their await
  last,           \* the response sent most recently
  nextBlogId,     \* the next blog id uuidv4() returns
  nextCommentId,  \* the next comment id uuidv4() returns
  columnShape,    \* "text" or "json": how the driver returns JSON columns
  mediaFailed,    \* blog ids whose image compression or upload failed
  created,        \* blog id -> the authors field its Create was given, until an Update
  storeClock,     \* the reading of the store's clock the next INSERT puts in created_at
  submissions,    \* table blog_submissions: id -> row, or NoRow
  nextSubId       \* the next submission id uuidv4() returns

vars == <<blogs, reqs, last, nextBlogId, nextCommentId, columnShape, mediaFailed,
          created, storeClock, submissions, nextSubId>>

subVars == <<submissions, nextSubId>>

NoRow == [exists |-> FALSE]

ColumnShapes == {"text", "json"}

\* what a SELECT returns for a JSON column holding `col` (Null or text)
ReadColumn(shape, col) ==
  IF col.t = "null" THEN Null
  ELSE IF shape = "text" THEN col
  ELSE ParsedValue(col.v)

\* a bound parameter as the driver writes it: undefined becomes NULL
SqlParam(x) == IF x.t = "undefined" THEN Null ELSE x

(***************************************************************************)
(* Decoding of the stored columns, one operator per handler.               *)
(***************************************************************************)
\* GET /:id, authors
ParseAuthorsGet(col) ==
  IF col.t = "string"
  THEN IF JSONparse(col.v).ok THEN ParsedValue(col.v) ELSE Arr(<<col.v>>)
  ELSE IF Truthy(col) THEN col ELSE Arr(<<>>)

\* GET /:id and GET /:id/comments, comments
ParseCommentsGet(col) ==
  IF col.t \in {"null", "undefined"} THEN <<>>
  ELSE IF col.t = "string"
  THEN IF JSONparse(col.v).ok THEN JSONparse(col.v).val ELSE <<>>
  ELSE IF col.t = "array" THEN col.v
  ELSE IF col.t = "object" THEN ObjectValues(col.v)
  ELSE <<>>

\* the value decoded by GET /:id and GET /:id/comments is an array; text that
\* holds another JSON value decodes to that value
DecodesToArrayGet(col) ==
  (col.t = "string" /\ JSONparse(col.v).ok) => JSONparse(col.v).t = "array"

\* POST /:id/comment, comments
ParseCommentsAppend(col) ==
  IF ~Truthy(col) THEN <<>>
  ELSE IF col.t = "string"
  THEN IF JSONparse(col.v).ok THEN JSONparse(col.v).val ELSE <<>>
  ELSE IF col.t = "array" THEN col.v
  ELSE <<>>

\* the value decoded by POST /:id/comment is an array
DecodesToArrayAppend(col) ==
  (Truthy(col) /\ col.t = "string" /\ JSONparse(col.v).ok) =>
    JSONparse(col.v).t = "array"

\* the argument JSON.parse receives, converted to a string
ToJSONparseArgument(col) ==
  IF ~Truthy(col) THEN <<LB, RB>>
  ELSE IF col.t = "string" THEN col.v
  ELSE IF col.t = "array" THEN ArrayToString(col.v)
  ELSE IF col.t = "number" THEN <<Lit(col)>>
  ELSE <<LB, Bare("object"), Bare("Object"), RB>>

\* DELETE /:blogId/comment/:commentId, comments
ParseCommentsDelete(col) ==
  IF JSONparse(ToJSONparseArgument(col)).ok
  THEN JSONparse(ToJSONparseArgument(col)).val
  ELSE <<>>

\* the value decoded by DELETE /:blogId/comment/:commentId is an array
DecodesToArrayDelete(col) ==
  JSONparse(ToJSONparseArgument(col)).ok =>
    JSONparse(ToJSONparseArgument(col)).t = "array"

\* GET /:id, featured_image reduced to what the frontend needs
ParseFeaturedImage(col) ==
  IF ~Truthy(col) THEN Null
  ELSE LET imageData == IF col.t = "string" THEN JSONparse(col.v)
                        ELSE [ok |-> TRUE, val |-> col.v]
       IN IF imageData.ok
          THEN Obj([public_id |-> imageData.val.public_id,
                    format |-> imageData.val.format,
                    resource_type |-> IF imageData.val.resource_type = ""
                                      THEN "image"
                                      ELSE imageData.val.resource_type])
          ELSE Null

(***************************************************************************)
(* Responses.                                                              *)
(***************************************************************************)
Failure(op, status, error) == [op |-> op, status |-> status, error |-> error]

(***************************************************************************)
(* POST /new: create a blog (blog.js:236-332).  Without a file the handler *)
(* runs to its INSERT and its answer in one step.  With a file it          *)
(* generates the id and is suspended at its await of compressImage; when   *)
(* compression is answered it is suspended at its await of the upload, or  *)
(* answers 500; when the upload is answered, the last step inserts the row *)
(* of that id and answers.  The outcomes of compression and upload are     *)
(* inputs of the steps that receive them.                                  *)
(***************************************************************************)
Authors == {<<"A", "B">>, <<"B">>, <<>>}

\* the authors field of a request: absent, a list, its JSON text, broken
\* text, or the JSON text of a string that holds a bare word
AuthorsInputs ==
  {Undefined, Str(<<LB, Val("A")>>), Str(<<Lit(Str(<<Bare("A")>>))>>)}
    \cup {Arr(a) : a \in Authors}
    \cup {Str(JSONstringify(a)) : a \in Authors}

ValidCreate ==
  [title |-> "T1", published_date |-> "D1", category |-> "C1",
   authors |-> Arr(<<"A", "B">>), body |-> "B1"]

\* request bodies: every authors input, and one body per missing field
CreateBodies ==
  {[ValidCreate EXCEPT !.authors = a] : a \in AuthorsInputs}
    \cup {[ValidCreate EXCEPT !.title = ""],
          [ValidCreate EXCEPT !.published_date = ""],
          [ValidCreate EXCEPT !.category = ""],
          [ValidCreate EXCEPT !.body = ""]}

\* what compressImage does with the image
CompressOutcomes == {"compressFail", "ok"}

\* what uploadToCloudinary does once the image is compressed
UploadOutcomes == {"uploadFail", "ok"}

\* what uploadToCloudinary resolves to for the blog id
CloudinaryResult(blogId) ==
  [url |-> "http", public_id |-> blogId, format |-> "jpg", resource_type |-> "image"]

\* an image block that catches only a rejected upload
MediaAbortsOnUploadOnly(hasFile, media) == hasFile /\ media = "uploadFail"

\* lines 262-299: with a file, any throw of compress or upload ends the request
MediaAborts(hasFile, media) == hasFile /\ media # "ok"

\* lines 311: JSON.stringify(parsedAuthors) with the elements of a list reversed
StoredAuthorsReversed(parsedAuthors) ==
  IF parsedAuthors.t = "array"
  THEN Str(JSONstringify([i \in 1..Len(parsedAuthors.v) |->
                            parsedAuthors.v[Len(parsedAuthors.v) + 1 - i]]))
  ELSE Stringify(parsedAuthors)

\* line 311: JSON.stringify(parsedAuthors)
StoredAuthors(parsedAuthors) == Stringify(parsedAuthors)

\* lines 302-316: the row of the INSERT statement; created_at is the column
\* the store fills with its clock
NewBlogRow(body, parsedAuthors, featuredImageData, createdAt) ==
  [title |-> body.title,
   published_date |-> body.published_date,
   category |-> body.category,
   authors |-> StoredAuthors(parsedAuthors),
   featured_image |-> IF Truthy(featuredImageData)
                      THEN Str(<<Val(featuredImageData.v)>>)
                      ELSE Null,
   body |-> body.body,
   comments_count |-> 0,
   comments |-> Str(<<LB, RB>>),
   created_at |-> createdAt]

\* lines 302-325: the INSERT statement and the 201 response
InsertBlog(blogId, body, parsedAuthors, featuredImageData) ==
  /\ blogs' = [blogs EXCEPT ![blogId] =
                 NewBlogRow(body, parsedAuthors, featuredImageData, storeClock)]
  /\ storeClock' = storeClock + 1
  /\ created' = [created EXCEPT ![blogId] = body.authors]
  /\ last' = [op |-> "create", status |-> 201, blogId |-> blogId,
              featuredImage |-> featuredImageData]

\* lines 238-271: validation, the authors, the id; without a file the INSERT
\* and the 201, with a file compressImage is asked for
BlogCreate(body, hasFile) ==
  /\ IF \/ body.title = "" \/ body.published_date = "" \/ body.category = ""
        \/ ~Truthy(body.authors) \/ body.body = ""
     THEN /\ last' = Failure("create", 400, "Missing required fields")
          /\ UNCHANGED <<blogs, reqs, nextBlogId, created, storeClock>>
     ELSE IF body.authors.t = "string" /\ ~JSONparse(body.authors.v).ok
     THEN /\ last' = Failure("create", 400,
                              "Invalid authors format. Must be valid JSON array.")
          /\ UNCHANGED <<blogs, reqs, nextBlogId, created, storeClock>>
     ELSE LET parsedAuthors == IF body.authors.t = "string"
                               THEN ParsedValue(body.authors.v)
                               ELSE body.authors
              blogId == nextBlogId
          IN /\ nextBlogId <= MaxBlogs
             /\ nextBlogId' = nextBlogId + 1
             /\ IF ~hasFile
                THEN /\ InsertBlog(blogId, body, parsedAuthors, Null)
                     /\ UNCHANGED reqs
                ELSE /\ reqs' = reqs (+) SetToBag({
                          [op |-> "create", pending |-> "compress",
                           blogId |-> blogId, body |-> body,
                           parsedAuthors |-> parsedAuthors]})
                     /\ UNCHANGED <<blogs, last, created, storeClock>>
  /\ UNCHANGED <<nextCommentId, columnShape, mediaFailed, subVars>>

\* lines 271-275 and 292-298: compressImage is answered; the upload is asked
\* for, or the image block catches the throw
BlogCreateCompress(q, media) ==
  /\ BagIn(q, reqs)
  /\ q.op = "create"
  /\ q.pending = "compress"
  /\ media \in CompressOutcomes
  /\ IF media = "ok"
     THEN /\ reqs' = (reqs (-) SetToBag({q}))
                       (+) SetToBag({[q EXCEPT !.pending = "upload"]})
          /\ UNCHANGED <<blogs, last, mediaFailed, created, storeClock>>
     ELSE /\ reqs' = reqs (-) SetToBag({q})
          /\ mediaFailed' = mediaFailed \cup {q.blogId}
          /\ IF MediaAborts(TRUE, media)
             THEN /\ last' = Failure("create", 500, "Failed to upload feature image")
                  /\ UNCHANGED <<blogs, created, storeClock>>
             ELSE InsertBlog(q.blogId, q.body, q.parsedAuthors, Null)
  /\ UNCHANGED <<nextBlogId, nextCommentId, columnShape, subVars>>

\* lines 275-325: the upload is answered; the metadata, the INSERT, the 201
BlogCreateUpload(q, media) ==
  /\ BagIn(q, reqs)
  /\ q.op = "create"
  /\ q.pending = "upload"
  /\ media \in UploadOutcomes
  /\ reqs' = reqs (-) SetToBag({q})
  /\ mediaFailed' = IF media # "ok" THEN mediaFailed \cup {q.blogId}
                    ELSE mediaFailed
  /\ IF MediaAborts(TRUE, media)
     THEN /\ last' = Failure("create", 500, "Failed to upload feature image")
          /\ UNCHANGED <<blogs, created, storeClock>>
     ELSE InsertBlog(q.blogId, q.body, q.parsedAuthors,
                     IF media = "ok" THEN Obj(CloudinaryResult(q.blogId)) ELSE Null)
  /\ UNCHANGED <<nextBlogId, nextCommentId, columnShape, subVars>>

(***************************************************************************)
(* GET / (blog.js:13-138) with no search and no sortBy parameter: a page   *)
(* of the posts, latest first, with or without a category.  The handler    *)
(* counts the rows, is suspended, and selects the page: the matching rows  *)
(* by published_date descending, then created_at descending, LIMIT rows    *)
(* from OFFSET on.  A row returned is reduced to its id.  A page or limit  *)
(* below 1 makes a negative OFFSET or LIMIT, which is for the store to     *)
(* answer; the model has no such request.                                  *)
(***************************************************************************)
DefaultPage == 1
BlogListLimit == 5

\* the category parameter: absent (""), "All", or a category
Categories == {"", "All", "C1", "C2"}

\* the publication dates of the requests, in calendar order
PublishedDates == <<"D1", "D2">>

\* the place of a publication date in the calendar
DateOrder(d) == CHOOSE i \in 1..Len(PublishedDates) : PublishedDates[i] = d

\* lines 27-30, 40-43: the rows the WHERE clause keeps
Matching(table, category) ==
  {b \in BlogIds : table[b] # NoRow
                   /\ (category \notin {"", "All"} => table[b].category = category)}

\* line 61: row a is listed before row b
ListedBefore(table, a, b) ==
  \/ DateOrder(table[a].published_date) > DateOrder(table[b].published_date)
  \/ /\ table[a].published_date = table[b].published_date
     /\ table[a].created_at > table[b].created_at

\* lines 66-71: the ids of the matching rows in the order of the ORDER BY clause
OrderedRows(table, category) ==
  LET rows == Matching(table, category)
  IN [i \in 1..Cardinality(rows) |->
        CHOOSE b \in rows :
          Cardinality({a \in rows : ListedBefore(table, a, b)}) = i - 1]

\* line 72: LIMIT limit OFFSET offset of an ordered result
LimitOffset(ordered, limit, offset) ==
  IF offset >= Len(ordered) THEN <<>>
  ELSE SubSeq(ordered, offset + 1,
              IF offset + limit < Len(ordered) THEN offset + limit ELSE Len(ordered))

\* lines 15-48: the parameters, the WHERE clause, SELECT COUNT(*)
BlogList(pageQuery, limitQuery, category) ==
  /\ ParseIntOr(pageQuery, DefaultPage) >= 1
  /\ ParseIntOr(limitQuery, BlogListLimit) >= 1
  /\ BagCardinality(reqs) < MaxReq
  /\ reqs' = reqs (+) SetToBag({
       [op |-> "list",
        page |-> ParseIntOr(pageQuery, DefaultPage),
        limit |-> ParseIntOr(limitQuery, BlogListLimit),
        category |-> category,
        totalBlogs |-> Cardinality(Matching(blogs, category))]})
  /\ UNCHANGED <<blogs, last, nextBlogId, nextCommentId, columnShape, mediaFailed,
                 created, storeClock, subVars>>

\* lines 48-133: the page arithmetic, the SELECT of the page, the response
BlogListSelect(q) ==
  /\ BagIn(q, reqs)
  /\ q.op = "list"
  /\ reqs' = reqs (-) SetToBag({q})
  /\ LET totalPages == CeilDiv(q.totalBlogs, q.limit)
         offset == (q.page - 1) * q.limit
     IN last' = [op |-> "list", status |-> 200,
                 ids |-> LimitOffset(OrderedRows(blogs, q.category), q.limit, offset),
                 pagination |-> [currentPage |-> q.page,
                                 totalPages |-> totalPages,
                                 totalBlogs |-> q.totalBlogs,
                                 limit |-> q.limit,
                                 hasNextPage |-> q.page < totalPages,
                                 hasPrevPage |-> q.page > 1],
                 filters |-> [category |-> IF q.category = "" THEN Null
                                           ELSE Str(q.category),
                              search |-> Null, sortBy |-> "latest"]]
  /\ UNCHANGED <<blogs, nextBlogId, nextCommentId, columnShape, mediaFailed,
                 created, storeClock, subVars>>

(***************************************************************************)
(* GET /:id (blog.js:159-233).                                             *)
(***************************************************************************)
\* lines 169-226: the response body for a row
GetResponse(shape, row) ==
  [title |-> row.title,
   published_date |-> row.published_date,
   category |-> row.category,
   body |-> row.body,
   comments_count |-> row.comments_count,
   created_at |-> row.created_at,
   authors |-> ParseAuthorsGet(ReadColumn(shape, row.authors)),
   comments |-> ParseCommentsGet(ReadColumn(shape, row.comments)),
   featured_image |-> ParseFeaturedImage(ReadColumn(shape, row.featured_image))]

BlogGet(b) ==
  /\ last' = IF blogs[b] = NoRow
             THEN Failure("get", 404, "Blog not found")
             ELSE [op |-> "get", status |-> 200, blogId |-> b,
                   blog |-> GetResponse(columnShape, blogs[b])]
  /\ UNCHANGED <<blogs, reqs, nextBlogId, nextCommentId, columnShape, mediaFailed,
                 created, storeClock, subVars>>

(***************************************************************************)
(* PUT /:id (blog.js:363-391).                                             *)
(***************************************************************************)
UpdateBodies ==
  {[title |-> "T2", published_date |-> "D2", category |-> "C2",
    authors |-> Arr(<<"B">>), featured_image |-> Undefined, body |-> "B2"],
   [title |-> "T1", published_date |-> "D2", category |-> "C1",
    authors |-> Undefined, featured_image |-> Str(<<Val(CloudinaryResult(0))>>),
    body |-> "B1"],
   [title |-> "T2", published_date |-> "D1", category |-> "C1",
    authors |-> Str(JSONstringify(<<"A">>)), featured_image |-> Undefined,
    body |-> "B2"]}

\* line 375: JSON.stringify(authors) of the request field
StringifyField(x) == Stringify(x)

\* an UPDATE statement that also resets the comments columns
UpdatedRowResetsComments(row, body) ==
  [row EXCEPT !.title = body.title,
              !.published_date = body.published_date,
              !.category = body.category,
              !.authors = SqlParam(StringifyField(body.authors)),
              !.featured_image = SqlParam(body.featured_image),
              !.body = body.body,
              !.comments = Str(<<LB, RB>>),
              !.comments_count = 0]

\* lines 369-380: the row after the UPDATE statement
UpdatedRow(row, body) ==
  [row EXCEPT !.title = body.title,
              !.published_date = body.published_date,
              !.category = body.category,
              !.authors = SqlParam(StringifyField(body.authors)),
              !.featured_image = SqlParam(body.featured_image),
              !.body = body.body]

BlogUpdate(b, body) ==
  /\ IF blogs[b] = NoRow
     THEN /\ last' = Failure("update", 404, "Blog not found")
          /\ UNCHANGED <<blogs, created>>
     ELSE /\ blogs' = [blogs EXCEPT ![b] = UpdatedRow(blogs[b], body)]
          /\ created' = [created EXCEPT ![b] = Undefined]
          /\ last' = [op |-> "update", status |-> 200, blogId |-> b]
  /\ UNCHANGED <<storeClock, reqs, nextBlogId, nextCommentId, columnShape, mediaFailed, subVars>>

(***************************************************************************)
(* DELETE /:id (blog.js:394-409).                                          *)
(***************************************************************************)
BlogDelete(b) ==
  /\ IF blogs[b] = NoRow
     THEN /\ last' = Failure("delete", 404, "Blog not found")
          /\ UNCHANGED <<blogs, created>>
     ELSE /\ blogs' = [blogs EXCEPT ![b] = NoRow]
          /\ created' = [created EXCEPT ![b] = Undefined]
          /\ last' = [op |-> "delete", status |-> 200, blogId |-> b]
  /\ UNCHANGED <<storeClock, reqs, nextBlogId, nextCommentId, columnShape, mediaFailed, subVars>>

(***************************************************************************)
(* POST /:id/comment: append a comment (blog.js:413-486).                  *)
(***************************************************************************)
Emails ==
  {<<>>, <<"a", "@", "b", ".", "c">>, <<"a", "@", "b">>,
   <<"a", " ", "@", "b", ".", "c">>, <<"a", "\t", "@", "b", ".", "c">>}

\* the honeypot field: absent, empty, blank (a space, a tab and a line feed),
\* filled, padded, or not a string
Websites ==
  {Undefined, Str(<<>>), Str(<<" ", "\t", "\n">>), Str(<<"x">>),
   Str(<<" ", "x">>), Num(1)}

CommentBodies ==
  [name : {"", "N"}, email : Emails, text : {"", "T"}, website : Websites]

ValidComment ==
  [name |-> "N", email |-> <<"a", "@", "b", ".", "c">>, text |-> "T",
   website |-> Undefined]

\* the bodies of the ledger specification: the valid one, each single wrong
\* field, each honeypot value, and a filled honeypot beside a wrong field
LedgerCommentBodies ==
  {ValidComment}
    \cup {[ValidComment EXCEPT !.name = ""], [ValidComment EXCEPT !.text = ""]}
    \cup {[ValidComment EXCEPT !.email = e] : e \in Emails}
    \cup {[ValidComment EXCEPT !.website = w] : w \in Websites}
    \cup {[ValidComment EXCEPT !.website = Str(<<"x">>), !.name = ""],
          [ValidComment EXCEPT !.website = Str(<<" ", "x">>),
                               !.email = <<"a", "@", "b">>]}

\* readings of the wall clock, new Date(), in milliseconds; the wall clock may
\* be set back, so a later request can read an earlier time
Timestamps == {999, 1000}

\* Date.prototype.toISOString, the seconds and milliseconds of the text
ToISOString(ms) == [sec |-> ms \div 1000, ms |-> ms % 1000]

\* line 429: /^[^\s@]+@[^\s@]+\.[^\s@]+$/.test(email)
EmailRegexTest(e) ==
  \E i \in 2..Len(e) :
    /\ e[i] = "@"
    /\ \A k \in (1..Len(e)) \ {i} : e[k] \notin WhiteSpace /\ e[k] # "@"
    /\ \E j \in (i + 2)..(Len(e) - 1) : e[j] = "."

\* a honeypot check that is never tripped
HoneypotNeverTripped(website) == FALSE

\* line 418: website && website.trim() !== "", for a string or an absent field
HoneypotTripped(website) == Truthy(website) /\ Trim(website.v) # <<>>

\* a count taken before the push
AppendedCountStale(currentComments) == Len(currentComments) - 1

\* line 475: currentComments.length, after the push
AppendedCount(currentComments) == Len(currentComments)

\* lines 415-470: validation, SELECT, decode, push
CommentAppend(b, body, ts) ==
  /\ IF Truthy(body.website) /\ body.website.t # "string"
     THEN \* website.trim is not a function: the catch of line 482
          /\ last' = Failure("comment", 500, "Failed to add comment")
          /\ UNCHANGED <<reqs, nextCommentId>>
     ELSE IF HoneypotTripped(body.website)
     THEN /\ last' = Failure("comment", 400, "False information")
          /\ UNCHANGED <<reqs, nextCommentId>>
     ELSE IF body.name = "" \/ body.email = <<>> \/ body.text = ""
     THEN /\ last' = Failure("comment", 400, "Name, email, and text are required")
          /\ UNCHANGED <<reqs, nextCommentId>>
     ELSE IF ~EmailRegexTest(body.email)
     THEN /\ last' = Failure("comment", 400, "Invalid email format")
          /\ UNCHANGED <<reqs, nextCommentId>>
     ELSE IF blogs[b] = NoRow
     THEN /\ last' = Failure("comment", 404, "Blog not found")
          /\ UNCHANGED <<reqs, nextCommentId>>
     ELSE /\ nextCommentId <= MaxComments
          /\ nextCommentId' = nextCommentId + 1
          /\ IF DecodesToArrayAppend(ReadColumn(columnShape, blogs[b].comments))
             THEN /\ LET newComment ==
                           [id |-> nextCommentId, name |-> body.name,
                            email |-> body.email, text |-> body.text,
                            timestamp |-> ToISOString(ts)]
                         currentComments ==
                           ParseCommentsAppend(
                             ReadColumn(columnShape, blogs[b].comments))
                     IN reqs' = reqs (+) SetToBag({
                          [op |-> "comment", blogId |-> b,
                           currentComments |-> Append(currentComments, newComment),
                           newComment |-> newComment]})
                  /\ UNCHANGED last
             ELSE \* line 470: push is not a function of the decoded value
                  /\ last' = Failure("comment", 500, "Failed to add comment")
                  /\ UNCHANGED reqs
  /\ UNCHANGED <<blogs, nextBlogId, columnShape, mediaFailed, created, storeClock,
                 subVars>>

\* a statement that inserts the row when the id matches none
UpdateCommentsOrInsert(table, b, list, count) ==
  [table EXCEPT ![b] =
     [(IF table[b] = NoRow THEN NewBlogRow(ValidCreate, Arr(<<>>), Null, 1) ELSE table[b])
        EXCEPT !.comments = Str(JSONstringify(list)), !.comments_count = count]]

\* a statement that adds the last comment of the list to the stored list
UpdateCommentsAppending(table, b, list, count) ==
  IF table[b] = NoRow \/ list = <<>> THEN table
  ELSE LET stored == JSONparse(table[b].comments.v).val
       IN [table EXCEPT
             ![b].comments = Str(JSONstringify(Append(stored, list[Len(list)]))),
             ![b].comments_count = Len(stored) + 1]

\* the effect of an UPDATE of comments and comments_count on the table
UpdateComments(table, b, list, count) ==
  IF table[b] = NoRow THEN table
  ELSE [table EXCEPT ![b].comments = Str(JSONstringify(list)),
                     ![b].comments_count = count]

\* lines 473-481: UPDATE and the 201 response
CommentAppendUpdate(q) ==
  /\ BagIn(q, reqs)
  /\ q.op = "comment"
  /\ blogs' = UpdateComments(blogs, q.blogId, q.currentComments,
                             AppendedCount(q.currentComments))
  /\ last' = [op |-> "comment", status |-> 201, blogId |-> q.blogId,
              comment |-> q.newComment]
  /\ reqs' = reqs (-) SetToBag({q})
  /\ UNCHANGED <<nextBlogId, nextCommentId, columnShape, mediaFailed, created, storeClock,
                 subVars>>

(***************************************************************************)
(* DELETE /:blogId/comment/:commentId (blog.js:551-590).                   *)
(***************************************************************************)
\* line 573: comments.filter((comment) => comment.id !== commentId)
WithoutComment(comments, commentId) ==
  LET Keep(c) == c.id # commentId IN SelectSeq(comments, Keep)

\* lines 553-577: SELECT, decode, filter
CommentDelete(b, commentId) ==
  /\ IF blogs[b] = NoRow
     THEN /\ last' = Failure("commentDelete", 404, "Blog not found")
          /\ UNCHANGED reqs
     ELSE IF ~DecodesToArrayDelete(ReadColumn(columnShape, blogs[b].comments))
     THEN \* line 573: filter is not a function of the decoded value
          /\ last' = Failure("commentDelete", 500, "Failed to delete comment")
          /\ UNCHANGED reqs
     ELSE LET comments ==
                ParseCommentsDelete(ReadColumn(columnShape, blogs[b].comments))
          IN IF Len(WithoutComment(comments, commentId)) = Len(comments)
             THEN /\ last' = Failure("commentDelete", 404, "Comment not found")
                  /\ UNCHANGED reqs
             ELSE /\ BagCardinality(reqs) < MaxReq
                  /\ reqs' = reqs (+) SetToBag({
                       [op |-> "commentDelete", blogId |-> b,
                        commentId |-> commentId,
                        comments |-> WithoutComment(comments, commentId)]})
                  /\ UNCHANGED last
  /\ UNCHANGED <<blogs, nextBlogId, nextCommentId, columnShape, mediaFailed,
                 created, storeClock, subVars>>

\* lines 580-585: UPDATE and the response
CommentDeleteUpdate(q) ==
  /\ BagIn(q, reqs)
  /\ q.op = "commentDelete"
  /\ blogs' = UpdateComments(blogs, q.blogId, q.comments, Len(q.comments))
  /\ last' = [op |-> "commentDelete", status |-> 200, blogId |-> q.blogId,
              commentId |-> q.commentId]
  /\ reqs' = reqs (-) SetToBag({q})
  /\ UNCHANGED <<nextBlogId, nextCommentId, columnShape, mediaFailed, created, storeClock,
                 subVars>>

(***************************************************************************)
(* GET /:id/comments: one page of comments (blog.js:490-548).              *)
(***************************************************************************)
DefaultLimit == 10

\* new Date(isoText) as milliseconds
DateParse(iso) == iso.sec * 1000 + iso.ms

\* a comparator that looks at the milliseconds field only
CompareMillisOnly(a, b) == b.timestamp.ms - a.timestamp.ms

\* line 523: (a, b) => new Date(b.timestamp) - new Date(a.timestamp)
CompareComments(a, b) == DateParse(b.timestamp) - DateParse(a.timestamp)

RECURSIVE InsertSorted(_, _)
\* x put after every element that does not sort after it
InsertSorted(sorted, x) ==
  IF sorted = <<>> THEN <<x>>
  ELSE IF CompareComments(Head(sorted), x) > 0
  THEN <<x>> \o sorted
  ELSE <<Head(sorted)>> \o InsertSorted(Tail(sorted), x)

RECURSIVE SortFrom(_, _)
SortFrom(sorted, rest) ==
  IF rest = <<>> THEN sorted
  ELSE SortFrom(InsertSorted(sorted, Head(rest)), Tail(rest))

\* Array.prototype.sort with CompareComments: a stable sort
SortComments(a) == SortFrom(<<>>, a)

\* Array.prototype.slice(start, end): a negative index counts from the end
Slice(a, start, end) ==
  LET len == Len(a)
      k == IF start < 0
           THEN (IF len + start > 0 THEN len + start ELSE 0)
           ELSE (IF start < len THEN start ELSE len)
      final == IF end < 0
               THEN (IF len + end > 0 THEN len + end ELSE 0)
               ELSE (IF end < len THEN end ELSE len)
  IN SubSeq(a, k + 1, final)

\* a page that runs one comment into the next page
PaginateOverlapping(allComments, page, limit) ==
  LET sorted == SortComments(allComments)
      totalComments == Len(sorted)
      totalPages == CeilDiv(totalComments, limit)
      startIndex == (page - 1) * limit
      endIndex == startIndex + limit + 1
  IN [comments |-> Slice(sorted, startIndex, endIndex),
      pagination |-> [currentPage |-> page, totalPages |-> totalPages,
                      totalComments |-> totalComments, limit |-> limit,
                      hasNextPage |-> page < totalPages,
                      hasPrevPage |-> page > 1]]

\* lines 522-541: sort, page arithmetic, slice
Paginate(allComments, page, limit) ==
  LET sorted == SortComments(allComments)
      totalComments == Len(sorted)
      totalPages == CeilDiv(totalComments, limit)
      startIndex == (page - 1) * limit
      endIndex == startIndex + limit
  IN [comments |-> Slice(sorted, startIndex, endIndex),
      pagination |-> [currentPage |-> page, totalPages |-> totalPages,
                      totalComments |-> totalComments, limit |-> limit,
                      hasNextPage |-> page < totalPages,
                      hasPrevPage |-> page > 1]]

\* the page and limit query parameters: absent, "0", "1", "2", "3", "-1", "x",
\* the hexadecimal "0x2", and a parameter given twice, ["2", "3"]
Queries ==
  {Undefined, Str(<<"0">>), Str(<<"1">>), Str(<<"2">>), Str(<<"3">>),
   Str(<<"-", "1">>), Str(<<"x">>), Str(<<"0", "x", "2">>),
   Arr(<<Str(<<"2">>), Str(<<"3">>)>>)}

CommentList(b, pageQuery, limitQuery) ==
  /\ last' =
       IF blogs[b] = NoRow THEN Failure("comments", 404, "Blog not found")
       ELSE IF ~DecodesToArrayGet(ReadColumn(columnShape, blogs[b].comments))
       THEN \* line 523: sort is not a function of the decoded value
            Failure("comments", 500, "Failed to fetch comments")
       ELSE LET page == ParseIntOr(pageQuery, DefaultPage)
                limit == ParseIntOr(limitQuery, DefaultLimit)
                allComments ==
                  ParseCommentsGet(ReadColumn(columnShape, blogs[b].comments))
                out == Paginate(allComments, page, limit)
            IN [op |-> "comments", status |-> 200, blogId |-> b,
                comments |-> out.comments, pagination |-> out.pagination,
                count |-> blogs[b].comments_count]
  /\ UNCHANGED <<blogs, reqs, nextBlogId, nextCommentId, columnShape, mediaFailed,
                 created, storeClock, subVars>>

(***************************************************************************)
(* The submission router (submissionRoute.js).  Every handler issues one   *)
(* store statement, so each is one action.  The rate limiter and the       *)
(* express-validator chain of POST / are library middleware: their         *)
(* verdicts are inputs.                                                    *)
(***************************************************************************)
SubmissionTitles == {"S1", "S2"}

\* the status field of a PATCH body: the three statuses, other strings, an
\* absent field, and an array holding a status
StatusInputs ==
  {Str("Received"), Str("Accepted"), Str("Published"), Str("Draft"),
   Str("received"), Str(""), Undefined, Arr(<<"Accepted">>)}

\* a status check that accepts every string
IncludesAnyString(status) == status.t = "string"

\* line 137: ["Received", "Accepted", "Published"].includes(status)
IncludesStatus(status) ==
  status.t = "string" /\ status.v \in {"Received", "Accepted", "Published"}

\* lines 15-61: POST /
SubmissionCreate(title, limited, errorsEmpty) ==
  /\ IF limited
     THEN /\ last' = Failure("submit", 429,
                              "Too many submissions, please try again later.")
          /\ UNCHANGED subVars
     ELSE IF ~errorsEmpty
     THEN /\ last' = [op |-> "submit", status |-> 400]
          /\ UNCHANGED subVars
     ELSE /\ nextSubId <= MaxSubs
          /\ nextSubId' = nextSubId + 1
          /\ submissions' = [submissions EXCEPT ![nextSubId] =
                               [blog_title |-> title, status |-> "Received"]]
          /\ last' = [op |-> "submit", status |-> 201, submissionId |-> nextSubId]
  /\ UNCHANGED <<blogs, reqs, nextBlogId, nextCommentId, columnShape, mediaFailed,
                 created, storeClock>>

\* lines 112-128: GET /:id
SubmissionGet(id) ==
  /\ last' = IF submissions[id] = NoRow
             THEN Failure("submission", 404, "Submission not found")
             ELSE [op |-> "submission", status |-> 200, id |-> id,
                   submission |-> submissions[id]]
  /\ UNCHANGED <<blogs, reqs, nextBlogId, nextCommentId, columnShape, mediaFailed,
                 created, storeClock, subVars>>

\* lines 131-160: PATCH /:id/status
SubmissionStatusUpdate(id, status) ==
  /\ IF ~IncludesStatus(status)
     THEN /\ last' = Failure("status", 400,
                "Invalid status. Must be 'Received', 'Accepted', or 'Published'")
          /\ UNCHANGED submissions
     ELSE IF submissions[id] = NoRow
     THEN /\ last' = Failure("status", 404, "Submission not found")
          /\ UNCHANGED submissions
     ELSE /\ submissions' = [submissions EXCEPT ![id].status = status.v]
          /\ last' = [op |-> "status", status |-> 200, id |-> id,
                      newStatus |-> status]
  /\ UNCHANGED <<blogs, reqs, nextBlogId, nextCommentId, columnShape, mediaFailed,
                 created, storeClock, nextSubId>>

\* lines 163-179: DELETE /:id
SubmissionDelete(id) ==
  /\ IF submissions[id] = NoRow
     THEN /\ last' = Failure("submissionDelete", 404, "Submission not found")
          /\ UNCHANGED submissions
     ELSE /\ submissions' = [submissions EXCEPT ![id] = NoRow]
          /\ last' = [op |-> "submissionDelete", status |-> 200, id |-> id]
  /\ UNCHANGED <<blogs, reqs, nextBlogId, nextCommentId, columnShape, mediaFailed,
                 created, storeClock, nextSubId>>

(***************************************************************************)
(* The API as a state machine.                                             *)
(***************************************************************************)
Init ==
  /\ blogs = [b \in BlogIds |-> NoRow]
  /\ reqs = EmptyBag
  /\ last = [op |-> "none"]
  /\ nextBlogId = 1
  /\ nextCommentId = 1
  /\ columnShape \in ColumnShapes
  /\ mediaFailed = {}
  /\ created = [b \in BlogIds |-> Undefined]
  /\ storeClock = 1
  /\ submissions = [s \in SubIds |-> NoRow]
  /\ nextSubId = 1

\* the requests in flight
InFlight == BagToSet(reqs)

\* line 466 reads the clock only in a request that passes validation and
\* finds its row; for every other request one reading stands for all
ClockReadings(b, body) ==
  IF /\ ~(Truthy(body.website) /\ body.website.t # "string")
     /\ ~HoneypotTripped(body.website)
     /\ body.name # "" /\ body.text # "" /\ EmailRegexTest(body.email)
     /\ blogs[b] # NoRow
  THEN Timestamps
  ELSE {CHOOSE t \in Timestamps : \A u \in Timestamps : t <= u}

Next ==
  \/ \E body \in CreateBodies, hasFile \in BOOLEAN : BlogCreate(body, hasFile)
  \/ \E q \in InFlight, media \in CompressOutcomes : BlogCreateCompress(q, media)
  \/ \E q \in InFlight, media \in UploadOutcomes : BlogCreateUpload(q, media)
  \/ \E p \in Queries, l \in Queries, category \in Categories :
       BlogList(p, l, category)
  \/ \E q \in InFlight : BlogListSelect(q)
  \/ \E b \in BlogIds : BlogGet(b)
  \/ \E b \in BlogIds, body \in UpdateBodies : BlogUpdate(b, body)
  \/ \E b \in BlogIds : BlogDelete(b)
  \/ \E b \in BlogIds, body \in CommentBodies :
       \E ts \in ClockReadings(b, body) : CommentAppend(b, body, ts)
  \/ \E q \in InFlight : CommentAppendUpdate(q)
  \/ \E b \in BlogIds, c \in CommentIds : CommentDelete(b, c)
  \/ \E q \in InFlight : CommentDeleteUpdate(q)
  \/ \E b \in BlogIds, p \in Queries, l \in Queries : CommentList(b, p, l)
  \/ \E title \in SubmissionTitles, limited \in BOOLEAN, errorsEmpty \in BOOLEAN :
       SubmissionCreate(title, limited, errorsEmpty)
  \/ \E id \in SubIds : SubmissionGet(id)
  \/ \E id \in SubIds, status \in StatusInputs : SubmissionStatusUpdate(id, status)
  \/ \E id \in SubIds : SubmissionDelete(id)

Spec == Init /\ [][Next]_vars

(***************************************************************************)
(* The comment ledger of one post.  Comment requests on different posts    *)
(* touch different rows, so one post shows every interleaving; the other   *)
(* blog ids belong to posts deleted earlier.  Requests name the id of the  *)
(* one post, which matches no row before Create and after Delete.          *)
(***************************************************************************)
LedgerInit ==
  /\ blogs = [b \in BlogIds |-> NoRow]
  /\ reqs = EmptyBag
  /\ last = [op |-> "none"]
  /\ nextBlogId = MaxBlogs
  /\ nextCommentId = 1
  /\ columnShape \in ColumnShapes
  /\ mediaFailed = {}
  /\ created = [b \in BlogIds |-> Undefined]
  /\ storeClock = 1
  /\ submissions = [s \in SubIds |-> NoRow]
  /\ nextSubId = 1

LedgerBlogIds == {MaxBlogs}

LedgerNext ==
  \/ BlogCreate(ValidCreate, FALSE)
  \/ \E b \in LedgerBlogIds : BlogDelete(b)
  \/ \E b \in LedgerBlogIds, body \in LedgerCommentBodies :
       \E ts \in ClockReadings(b, body) : CommentAppend(b, body, ts)
  \/ \E q \in InFlight : CommentAppendUpdate(q)
  \/ \E b \in LedgerBlogIds, c \in CommentIds : CommentDelete(b, c)
  \/ \E q \in InFlight : CommentDeleteUpdate(q)

LedgerSpec == LedgerInit /\ [][LedgerNext]_vars

(***************************************************************************)
(* Comment Append and comment Delete requests on one post that is never    *)
(* deleted.  A query a handler awaits is answered: the write step of a     *)
(* request in flight is eventually taken.                                  *)
(***************************************************************************)
RecallNext ==
  \/ BlogCreate(ValidCreate, FALSE)
  \/ \E b \in LedgerBlogIds :
       \E ts \in ClockReadings(b, ValidComment) : CommentAppend(b, ValidComment, ts)
  \/ \E q \in InFlight : CommentAppendUpdate(q)
  \/ \E b \in LedgerBlogIds, c \in CommentIds : CommentDelete(b, c)
  \/ \E q \in InFlight : CommentDeleteUpdate(q)

RecallSpec ==
  /\ LedgerInit
  /\ [][RecallNext]_vars
  /\ WF_vars(\E q \in InFlight : CommentAppendUpdate(q))
  /\ WF_vars(\E q \in InFlight : CommentDeleteUpdate(q))

(***************************************************************************)
(* The life of one post: it is created, read, commented on and deleted,    *)
(* with comment requests in flight across the Delete.                      *)
(***************************************************************************)
RemovalNext ==
  \/ BlogCreate(ValidCreate, FALSE)
  \/ \E b \in LedgerBlogIds : BlogDelete(b)
  \/ \E b \in LedgerBlogIds : BlogGet(b)
  \/ \E b \in LedgerBlogIds : CommentList(b, Undefined, Undefined)
  \/ \E b \in LedgerBlogIds :
       \E ts \in ClockReadings(b, ValidComment) : CommentAppend(b, ValidComment, ts)
  \/ \E q \in InFlight : CommentAppendUpdate(q)
  \/ \E b \in LedgerBlogIds, c \in CommentIds : CommentDelete(b, c)
  \/ \E q \in InFlight : CommentDeleteUpdate(q)

RemovalSpec == LedgerInit /\ [][RemovalNext]_vars

(***************************************************************************)
(* Concurrent comment Appends on one post that is never deleted and whose  *)
(* comments are never deleted: every comment id handed out and no longer   *)
(* in flight was answered 201.                                             *)
(***************************************************************************)
RaceNext ==
  \/ BlogCreate(ValidCreate, FALSE)
  \/ \E b \in LedgerBlogIds : BlogGet(b)
  \/ \E b \in LedgerBlogIds :
       \E ts \in ClockReadings(b, ValidComment) : CommentAppend(b, ValidComment, ts)
  \/ \E q \in InFlight : CommentAppendUpdate(q)

RaceSpec == LedgerInit /\ [][RaceNext]_vars

(***************************************************************************)
(* The posts table.  One post was created earlier and holds one comment;   *)
(* further posts are created without an image, read, updated and deleted.  *)
(* Each of these handlers is a single action, so no request is in flight   *)
(* between steps.                                                          *)
(***************************************************************************)
FirstComment ==
  [id |-> 1, name |-> ValidComment.name, email |-> ValidComment.email,
   text |-> ValidComment.text, timestamp |-> ToISOString(1000)]

PostInit ==
  /\ blogs = UpdateComments(
               [b \in BlogIds |->
                  IF b = 1 THEN NewBlogRow(ValidCreate, ValidCreate.authors, Null, 1)
                  ELSE NoRow],
               1, <<FirstComment>>, AppendedCount(<<FirstComment>>))
  /\ reqs = EmptyBag
  /\ last = [op |-> "none"]
  /\ nextBlogId = 2
  /\ nextCommentId = 2
  /\ columnShape \in ColumnShapes
  /\ mediaFailed = {}
  /\ created = [b \in BlogIds |-> IF b = 1 THEN ValidCreate.authors ELSE Undefined]
  /\ storeClock = 2
  /\ submissions = [s \in SubIds |-> NoRow]
  /\ nextSubId = 1

PostNext ==
  \/ \E body \in CreateBodies : BlogCreate(body, FALSE)
  \/ \E b \in BlogIds : BlogGet(b)
  \/ \E b \in BlogIds, body \in UpdateBodies : BlogUpdate(b, body)
  \/ \E b \in BlogIds : BlogDelete(b)

PostSpec == PostInit /\ [][PostNext]_vars

(***************************************************************************)
(* Posts created with an image.  One post was created earlier and holds    *)
(* one comment; Creates with and without a file, each outcome of the media *)
(* collaborator, Get and the two steps of the post List, one post to the   *)
(* page, interleave.                                                       *)
(***************************************************************************)
MediaNext ==
  \/ \E hasFile \in BOOLEAN : BlogCreate(ValidCreate, hasFile)
  \/ \E q \in InFlight, media \in CompressOutcomes : BlogCreateCompress(q, media)
  \/ \E q \in InFlight, media \in UploadOutcomes : BlogCreateUpload(q, media)
  \/ \E p \in {Undefined, Str(<<"2">>)} : BlogList(p, Str(<<"1">>), "")
  \/ \E q \in InFlight : BlogListSelect(q)
  \/ \E b \in BlogIds : BlogGet(b)
  \/ \E b \in BlogIds : BlogDelete(b)

MediaSpec == PostInit /\ [][MediaNext]_vars

(***************************************************************************)
(* Pages of one post's comments.  The post holds any list of up to MaxList *)
(* comments, in the order they were appended; their timestamps need not    *)
(* ascend, since the wall clock can repeat a reading or step back.  List   *)
(* requests name the post and an id that matches no row.                   *)
(***************************************************************************)
ListTimestamps == {999, 1000, 1001}

\* the comments appended with the clock readings tss, ids in order of arrival
RECURSIVE CommentsStamped(_)
CommentsStamped(tss) ==
  IF tss = <<>> THEN <<>>
  ELSE Append(CommentsStamped(SubSeq(tss, 1, Len(tss) - 1)),
              [id |-> Len(tss), name |-> ValidComment.name,
               email |-> ValidComment.email, text |-> ValidComment.text,
               timestamp |-> ToISOString(tss[Len(tss)])])

ListInit ==
  /\ \E n \in 0..MaxList : \E tss \in [1..n -> ListTimestamps] :
       /\ blogs = UpdateComments(
                    [b \in BlogIds |->
                       IF b = 1 THEN NewBlogRow(ValidCreate, ValidCreate.authors, Null, 1)
                       ELSE NoRow],
                    1, CommentsStamped(tss), AppendedCount(CommentsStamped(tss)))
       /\ nextCommentId = n + 1
  /\ reqs = EmptyBag
  /\ last = [op |-> "none"]
  /\ nextBlogId = 2
  /\ columnShape \in ColumnShapes
  /\ mediaFailed = {}
  /\ created = [b \in BlogIds |-> IF b = 1 THEN ValidCreate.authors ELSE Undefined]
  /\ storeClock = 2
  /\ submissions = [s \in SubIds |-> NoRow]
  /\ nextSubId = 1

ListNext ==
  \E b \in {1, MaxBlogs}, p \in Queries, l \in Queries : CommentList(b, p, l)

ListSpec == ListInit /\ [][ListNext]_vars

(***************************************************************************)
(* The submissions table alone: the blog tables stay empty.                *)
(***************************************************************************)
SubmissionInit ==
  /\ Init
  /\ columnShape = "text"

SubmissionNext ==
  \/ \E title \in SubmissionTitles, limited \in BOOLEAN, errorsEmpty \in BOOLEAN :
       SubmissionCreate(title, limited, errorsEmpty)
  \/ \E id \in SubIds : SubmissionGet(id)
  \/ \E id \in SubIds, status \in StatusInputs : SubmissionStatusUpdate(id, status)
  \/ \E id \in SubIds : SubmissionDelete(id)

SubmissionSpec == SubmissionInit /\ [][SubmissionNext]_vars

(***************************************************************************)
(* What the claims speak of.                                               *)
(***************************************************************************)
\* the comments list a row holds: the JSON value of its comments column
StoredList(table, b) == JSONparse(table[b].comments.v).val

HasComment(list, commentId) == \E i \in 1..Len(list) : list[i].id = commentId

\* the website field is a string with a character that is not white space
NonBlankString(website) ==
  website.t = "string" /\ \E i \in 1..Len(website.v) : website.v[i] \notin WhiteSpace

\* C1: for every post, after any interleaving of post Create, comment Append
\* and comment Delete, the stored comments_count equals the length of the
\* stored comments list.
C1_CountEqualsLength ==
  \A b \in BlogIds :
    blogs[b] # NoRow => blogs[b].comments_count = Len(StoredList(blogs, b))

\* a comment Delete has answered success and the post still holds a comment
C1_Witness ==
  /\ last.op = "commentDelete"
  /\ last.status = 200
  /\ blogs[last.blogId] # NoRow
  /\ Len(StoredList(blogs, last.blogId)) = 1
  /\ blogs[last.blogId].comments_count = 1

\* C2: comment Delete on an existing post answers 404 and changes nothing
\* when no stored comment has the id; when one has, the request goes on to
\* its UPDATE, answers success, and the list it writes is the list it read
\* less exactly that comment.
C2_DeleteRemovesExactlyTheComment ==
  [][/\ \A b \in LedgerBlogIds, c \in CommentIds :
          (blogs[b] # NoRow /\ CommentDelete(b, c)) =>
            IF HasComment(StoredList(blogs, b), c)
            THEN \E q \in BagToSet(reqs') :
                   /\ reqs' = reqs (+) SetToBag({q})
                   /\ q.op = "commentDelete"
                   /\ Len(q.comments) = Len(StoredList(blogs, b)) - 1
                   /\ ~HasComment(q.comments, c)
            ELSE /\ last' = Failure("commentDelete", 404, "Comment not found")
                 /\ blogs' = blogs
                 /\ reqs' = reqs
     /\ \A q \in InFlight :
          (CommentDeleteUpdate(q) /\ blogs[q.blogId] # NoRow) =>
            /\ last'.status = 200
            /\ StoredList(blogs', q.blogId) = q.comments
            /\ ~HasComment(StoredList(blogs', q.blogId), q.commentId)]_vars

\* C3, as stated: a comment Append whose honeypot field is non-empty answers
\* 400 and persists nothing, whatever the other fields and the post.
C3_NonEmptyHoneypotRejected ==
  [][\A b \in LedgerBlogIds, body \in LedgerCommentBodies :
       (/\ body.website.t = "string"
        /\ body.website.v # <<>>
        /\ \E ts \in ClockReadings(b, body) : CommentAppend(b, body, ts)) =>
         /\ last'.status = 400
         /\ blogs' = blogs
         /\ reqs' = reqs]_vars

\* C3, amended: a comment Append whose honeypot field is a string holding a
\* character that is not white space answers 400 and persists nothing: the
\* table is unchanged and no request is left to write, whatever the other
\* fields are and whether or not the post exists.
C3_NonBlankHoneypotRejected ==
  [][\A b \in LedgerBlogIds, body \in LedgerCommentBodies :
       (/\ NonBlankString(body.website)
        /\ \E ts \in ClockReadings(b, body) : CommentAppend(b, body, ts)) =>
         /\ last' = Failure("comment", 400, "False information")
         /\ blogs' = blogs
         /\ reqs' = reqs]_vars

\* the honeypot answer was given while a post held a comment
C3_Witness ==
  /\ last = Failure("comment", 400, "False information")
  /\ \E b \in BlogIds : blogs[b] # NoRow /\ Len(StoredList(blogs, b)) > 0

\* C9: a comment Append that fails leaves the store unchanged: 400 when name,
\* email or text is missing or the email is malformed, 404 when the post id
\* matches no row; on success (201) the row holds the list the request read
\* with exactly the returned comment added at its end.
C9_AppendFailsCleanlyOrAppendsOne ==
  [][/\ \A b \in LedgerBlogIds, body \in LedgerCommentBodies :
          (/\ ~Truthy(body.website)
           /\ \E ts \in ClockReadings(b, body) : CommentAppend(b, body, ts)) =>
            IF \/ body.name = "" \/ body.email = <<>> \/ body.text = ""
               \/ body.email \in {<<"a", "@", "b">>, <<"a", " ", "@", "b", ".", "c">>,
                                 <<"a", "\t", "@", "b", ".", "c">>}
            THEN last'.status = 400 /\ blogs' = blogs /\ reqs' = reqs
            ELSE IF blogs[b] = NoRow
            THEN last'.status = 404 /\ blogs' = blogs /\ reqs' = reqs
            ELSE \E q \in BagToSet(reqs') :
                   /\ reqs' = reqs (+) SetToBag({q})
                   /\ q.currentComments =
                        Append(StoredList(blogs, b), q.newComment)
                   /\ blogs' = blogs
     /\ \A q \in InFlight :
          CommentAppendUpdate(q) =>
            /\ last'.status = 201
            /\ blogs'[q.blogId] # NoRow
            /\ StoredList(blogs', q.blogId) = q.currentComments
            /\ q.currentComments[Len(q.currentComments)] = last'.comment]_vars

\* C4: a post Create whose image compression or upload failed is never
\* answered 201, and no row with its generated id is ever written: the table
\* has no such row, and no later List or Get returns one.
C4_NoRowAfterMediaFailure ==
  /\ \A b \in mediaFailed : blogs[b] = NoRow
  /\ (last.op = "create" /\ last.status = 201) => last.blogId \notin mediaFailed
  /\ (last.op = "get" /\ last.status = 200) => last.blogId \notin mediaFailed
  /\ last.op = "list" => \A i \in 1..Len(last.ids) : last.ids[i] \notin mediaFailed

\* after a failed media step, a List was answered while another post exists
C4_Witness ==
  /\ mediaFailed # {}
  /\ last.op = "list"
  /\ last.ids # <<>>

\* C8: Get of a post created with an authors list, given as a list or as its
\* JSON text, and not updated since, returns exactly that list.
C8_AuthorsRoundTrip ==
  (last.op = "get" /\ last.status = 200) =>
    \A a \in Authors :
      created[last.blogId] \in {Arr(a), Str(JSONstringify(a))} =>
        last.blog.authors = Arr(a)

\* a Get has returned the two authors of a post created from JSON text
C8_Witness ==
  /\ last.op = "get"
  /\ last.status = 200
  /\ created[last.blogId] = Str(JSONstringify(<<"A", "B">>))
  /\ last.blog.authors = Arr(<<"A", "B">>)

\* C10: post Update on an id that matches no row answers 404 and changes
\* nothing; on a matched post it stores the request's title, published_date,
\* category and body, and leaves that post's comments and comments_count and
\* every other post as they were.
C10_UpdateFrame ==
  [][\A b \in BlogIds, body \in UpdateBodies :
       BlogUpdate(b, body) =>
         IF blogs[b] = NoRow
         THEN last' = Failure("update", 404, "Blog not found") /\ blogs' = blogs
         ELSE /\ last'.status = 200
              /\ blogs'[b].title = body.title
              /\ blogs'[b].published_date = body.published_date
              /\ blogs'[b].category = body.category
              /\ blogs'[b].body = body.body
              /\ blogs'[b].comments = blogs[b].comments
              /\ blogs'[b].comments_count = blogs[b].comments_count
              /\ \A o \in BlogIds \ {b} : blogs'[o] = blogs[o]]_vars

\* an Update was answered for a post that holds a comment, beside another post
C10_Witness ==
  /\ last.op = "update"
  /\ last.status = 200
  /\ blogs[last.blogId] # NoRow
  /\ blogs[last.blogId].title = "T2"
  /\ blogs[last.blogId].comments_count = 1
  /\ Len(StoredList(blogs, last.blogId)) = 1
  /\ \E o \in BlogIds \ {last.blogId} : blogs[o] # NoRow

\* C5: every stored submission has status Received, Accepted or Published at
\* all times; Create stores Received; a status update with any other value,
\* a missing one included, answers 400 and leaves every stored status as it
\* was.
C5_StatusAlwaysOneOfThree ==
  /\ [](\A s \in SubIds :
          submissions[s] # NoRow =>
            submissions[s].status \in {"Received", "Accepted", "Published"})
  /\ [][/\ \A title \in SubmissionTitles :
            SubmissionCreate(title, FALSE, TRUE) =>
              submissions'[nextSubId].status = "Received"
        /\ \A id \in SubIds, status \in StatusInputs :
            (/\ status \notin {Str("Received"), Str("Accepted"), Str("Published")}
             /\ SubmissionStatusUpdate(id, status)) =>
              last'.status = 400 /\ submissions' = submissions]_vars

\* "Draft" was refused for a submission that had been accepted
C5_Witness ==
  /\ last = Failure("status", 400,
              "Invalid status. Must be 'Received', 'Accepted', or 'Published'")
  /\ \E s \in SubIds : submissions[s] # NoRow /\ submissions[s].status = "Accepted"

\* the instant of a comment's timestamp, in milliseconds
Millis(c) == c.timestamp.sec * 1000 + c.timestamp.ms

\* the place of the comment with this id in a list
PlaceOf(list, commentId) == CHOOSE i \in 1..Len(list) : list[i].id = commentId

\* C6: the comments a List returns are in timestamp-descending order, and
\* returned comments with equal timestamps are in their stored order.
C6_ListedNewestFirstStable ==
  (last.op = "comments" /\ last.status = 200) =>
    \A i \in 1..Len(last.comments), j \in 1..Len(last.comments) :
      i < j =>
        /\ Millis(last.comments[i]) >= Millis(last.comments[j])
        /\ Millis(last.comments[i]) = Millis(last.comments[j]) =>
             PlaceOf(StoredList(blogs, last.blogId), last.comments[i].id)
               < PlaceOf(StoredList(blogs, last.blogId), last.comments[j].id)

\* a page of three was returned with a tie and with the stored order changed
C6_Witness ==
  /\ last.op = "comments"
  /\ last.status = 200
  /\ Len(last.comments) = 3
  /\ Millis(last.comments[1]) = Millis(last.comments[2])
  /\ Millis(last.comments[2]) > Millis(last.comments[3])
  /\ last.comments[3].id = 1

\* the least integer not below total / limit
CeilingOfQuotient(total, limit) ==
  CHOOSE k \in (0 - total)..total :
    IF limit > 0 THEN (k - 1) * limit < total /\ total <= k * limit
    ELSE k * limit <= total /\ total < (k - 1) * limit

\* the elements of a list at the 0-based indices start .. end - 1 it has
ElementsAt(list, start, end) ==
  SubSeq(list, (IF start > 0 THEN start ELSE 0) + 1,
               IF end < Len(list) THEN end ELSE Len(list))

\* C7: for every page and limit a List answers with, and every list length:
\* totalPages = ceil(total / limit), totalComments = total, hasNextPage iff
\* page < totalPages, hasPrevPage iff page > 1, and the comments returned are
\* the sorted list's elements from index (page - 1) * limit up to but
\* excluding (page - 1) * limit + limit.
C7_PaginationMetadataAndSlice ==
  (last.op = "comments" /\ last.status = 200) =>
    LET page == last.pagination.currentPage
        limit == last.pagination.limit
        sorted == SortComments(StoredList(blogs, last.blogId))
        total == Len(sorted)
    IN /\ last.pagination.totalPages = CeilingOfQuotient(total, limit)
       /\ last.pagination.totalComments = total
       /\ last.pagination.hasNextPage = (page < last.pagination.totalPages)
       /\ last.pagination.hasPrevPage = (page > 1)
       /\ last.comments =
            ElementsAt(sorted, (page - 1) * limit, (page - 1) * limit + limit)

\* the post with this id was created and a Delete has removed its row
PostRemoved(b) == nextBlogId > b /\ b \notin mediaFailed /\ blogs[b] = NoRow

\* C11: post Delete on an id that matches no row answers 404 and changes
\* nothing; once a Delete has removed a post, no step of any request, in
\* flight or later, brings its row back, and every Get, comment List, comment
\* Append and comment Delete that starts afterwards answers 404.
C11_DeletedPostStaysDeleted ==
  [][\A b \in LedgerBlogIds :
       /\ (blogs[b] = NoRow /\ BlogDelete(b)) =>
            last' = Failure("delete", 404, "Blog not found") /\ blogs' = blogs
       /\ PostRemoved(b) =>
            /\ blogs'[b] = NoRow
            /\ BlogGet(b) => last'.status = 404
            /\ CommentList(b, Undefined, Undefined) => last'.status = 404
            /\ (\E ts \in ClockReadings(b, ValidComment) :
                  CommentAppend(b, ValidComment, ts)) =>
                 last'.status = 404 /\ reqs' = reqs
            /\ \A c \in CommentIds :
                 CommentDelete(b, c) => last'.status = 404 /\ reqs' = reqs]_vars

\* an Append in flight across the Delete has written and the row is still gone
C11_Witness ==
  /\ last.op = "comment"
  /\ last.status = 201
  /\ PostRemoved(last.blogId)
  /\ reqs = EmptyBag

\* the list an Append in flight read: what it will write, less its own comment
PriorList(q) == SubSeq(q.currentComments, 1, Len(q.currentComments) - 1)

\* C12: two comment Appends on one post can both read the same prior list
\* before either writes; the write of each stores the list it read plus its
\* own comment and answers 201, so the later write drops the comment of the
\* earlier one.
C12_LaterWriteDropsEarlierComment ==
  [][\A q \in InFlight :
       CommentAppendUpdate(q) =>
         /\ last' = [op |-> "comment", status |-> 201, blogId |-> q.blogId,
                     comment |-> q.newComment]
         /\ StoredList(blogs', q.blogId) = Append(PriorList(q), q.newComment)
         /\ \A c \in CommentIds :
              (HasComment(StoredList(blogs, q.blogId), c)
                 /\ ~HasComment(PriorList(q), c)) =>
                ~HasComment(StoredList(blogs', q.blogId), c)]_vars

\* both Appends were answered 201, no comment was ever deleted, and the post
\* holds the second comment without the first
C12_Witness ==
  /\ reqs = EmptyBag
  /\ nextCommentId = 3
  /\ last.op = "comment"
  /\ last.status = 201
  /\ blogs[last.blogId] # NoRow
  /\ HasComment(StoredList(blogs, last.blogId), last.comment.id)
  /\ \E c \in 1..2 : ~HasComment(StoredList(blogs, last.blogId), c)

\* the comments column of a post as the driver hands it to a handler
ColumnRead(b) == ReadColumn(columnShape, blogs[b].comments)

\* C13: for the stored comments value of any post, the decoding of post Get
\* and comment List, the decoding of comment Append and the decoding of
\* comment Delete give the same list.
C13_SameListForEveryReader ==
  \A b \in BlogIds :
    blogs[b] # NoRow =>
      /\ ParseCommentsAppend(ColumnRead(b)) = ParseCommentsGet(ColumnRead(b))
      /\ ParseCommentsDelete(ColumnRead(b)) = ParseCommentsGet(ColumnRead(b))

\* C14: whenever comment Append answers 201, the post exists at the moment of
\* the write and its stored comments list contains the returned comment right
\* after the write, whatever ran between Append's read and its write.
C14_CreatedCommentIsStored ==
  [][\A q \in InFlight :
       (CommentAppendUpdate(q) /\ last'.status = 201) =>
         /\ blogs[q.blogId] # NoRow
         /\ blogs'[q.blogId] # NoRow
         /\ HasComment(StoredList(blogs', q.blogId), last'.comment.id)]_vars

\* comment Delete has just answered success for comment c of post b
DeleteAnswered(b, c) ==
  last = [op |-> "commentDelete", status |-> 200, blogId |-> b, commentId |-> c]

\* C15: once comment Delete has answered success for a comment id, that id
\* is never again in the post's stored comments list, under any interleaving
\* of comment Append and comment Delete requests on the post.
C15_DeletedCommentNeverReturns ==
  \A b \in LedgerBlogIds, c \in CommentIds :
    [](DeleteAnswered(b, c) =>
         [](blogs[b] # NoRow => ~HasComment(StoredList(blogs, b), c)))

\* the comments of pages 1 .. k of a list, in page order
RECURSIVE PagesUpTo(_, _, _)
PagesUpTo(allComments, k, limit) ==
  IF k <= 0 THEN <<>>
  ELSE PagesUpTo(allComments, k - 1, limit)
         \o Paginate(allComments, k, limit).comments

\* the number of places of a list that hold the comment with this id
Occurrences(list, commentId) ==
  Cardinality({i \in 1..Len(list) : list[i].id = commentId})

\* C16: for the stored comments list of a post and every limit >= 1, the
\* pages 1 .. totalPages put one after the other are the whole
\* timestamp-descending list, every stored comment in it exactly once; every
\* page before the last has exactly limit comments; a page beyond totalPages
\* is empty with hasNextPage false; and a List response is the page asked for.
C16_PagesPartitionTheList ==
  /\ \A b \in BlogIds, limit \in 1..(MaxList + 1) :
       blogs[b] # NoRow =>
         LET allComments == ParseCommentsGet(ColumnRead(b))
             totalPages == Paginate(allComments, 1, limit).pagination.totalPages
             whole == PagesUpTo(allComments, totalPages, limit)
         IN /\ whole = SortComments(allComments)
            /\ Len(whole) = Len(allComments)
            /\ \A i \in 1..Len(allComments) :
                 Occurrences(whole, allComments[i].id) = 1
            /\ \A i \in 1..(Len(whole) - 1) :
                 Millis(whole[i]) >= Millis(whole[i + 1])
            /\ \A p \in 1..(totalPages - 1) :
                 Len(Paginate(allComments, p, limit).comments) = limit
            /\ \A p \in (totalPages + 1)..(totalPages + 2) :
                 /\ Paginate(allComments, p, limit).comments = <<>>
                 /\ ~Paginate(allComments, p, limit).pagination.hasNextPage
  /\ (/\ last.op = "comments" /\ last.status = 200
      /\ last.pagination.limit >= 1 /\ last.pagination.currentPage >= 1) =>
       LET allComments == ParseCommentsGet(ColumnRead(last.blogId))
           limit == last.pagination.limit
           page == last.pagination.currentPage
       IN /\ PagesUpTo(allComments, page, limit) =
               PagesUpTo(allComments, page - 1, limit) \o last.comments
          /\ page > last.pagination.totalPages =>
               last.comments = <<>> /\ ~last.pagination.hasNextPage

\* the second page of three comments listed two to a page: a short last page
C16_Witness ==
  /\ last.op = "comments" /\ last.status = 200
  /\ last.pagination.limit = 2 /\ last.pagination.currentPage = 2
  /\ last.pagination.totalComments = 3 /\ last.pagination.totalPages = 2
  /\ Len(last.comments) = 1
====
